---- MODULE Spec2Model ----
(***************************************************************************)
(* Kinematic envelopes of rock-slope failure (envelopes.py): the six       *)
(* envelope calculators and the plot orchestrator setup_axes.              *)
(*                                                                         *)
(* A behaviour is one top-level call made by a client: Init is the         *)
(* interpreter before the call (no figure yet, or one stereonet axes the   *)
(* client opened with mplstereonet), and each action is one function of    *)
(* the module applied to inputs drawn from bounded sets.                   *)
(*                                                                         *)
(* Values.  An input is [kind, v]: a Python number ("scalar", v of length  *)
(* 1), a Python list ("list") or a one-dimensional numpy array             *)
(* ("ndarray"), v being its elements in whole degrees.  A returned         *)
(* component is [kind, obj, v]: kind "array" (a numpy array) or "int" (a   *)
(* bare Python int); obj names the object: "strike", "dip" or "friction"   *)
(* for the caller's own ndarray passed under that parameter, "new" for an  *)
(* object allocated during the call.                                       *)
(***************************************************************************)
EXTENDS Integers, Sequences, FiniteSets

VARIABLES pc, call, ret, axes, cur, log

vars == <<pc, call, ret, axes, cur, log>>

\* Longest input batch.
MaxLen == 2

\* Largest dip, in whole degrees, of the calls that sweep the dip.
MaxDip == 90

\* High and low 26-bit limbs of the 53-bit significand of the double 1e-9
\* (10**-9 = 0x1.12e0be826d695p-30 = (EpsHi * 2^26 + EpsLo) * 2^-82).
EpsHi == 72057594
EpsLo == 2545301

StrikeVals == {-45, 315}
DipVals == {0, 70}
FrictionVals == {30, 100}
Failures == {"planar", "wedge", "toppling", "all", "bogus"}

Seqs(V) == UNION {[1..l -> V] : l \in 0..MaxLen}

\* What a client may pass for one parameter.
Inputs(V) ==
    {[kind |-> "scalar", v |-> <<x>>] : x \in V}
        \cup {[kind |-> k, v |-> s] : k \in {"list", "ndarray"}, s \in Seqs(V)}

\* What a client passes to setup_axes (it returns no array, so whether a
\* batch is a list or an ndarray cannot be observed).
SlopeInputs(V) ==
    {[kind |-> "scalar", v |-> <<x>>] : x \in V}
        \cup {[kind |-> "list", v |-> s] : s \in Seqs(V)}

\* The dips of a sweep: every whole degree from 0 to MaxDip, alone, as a
\* list of one or as a list of two.
DipSweep ==
    {[kind |-> "scalar", v |-> <<d>>] : d \in 0..MaxDip}
        \cup {[kind |-> "list", v |-> <<d>>] : d \in 0..MaxDip}
        \cup {[kind |-> "list", v |-> <<d, e>>] : d \in 0..MaxDip, e \in 0..MaxDip}

NoArg == [kind |-> "absent", v |-> <<>>]

---------------------------------------------------------------------------
(* numpy *)

\* np.atleast_1d: an ndarray of one dimension is returned as it is (the
\* same object); a scalar or a list is converted to a new array.
atleast_1d(x, name) ==
    [kind |-> "array",
     obj |-> IF x.kind = "ndarray" THEN name ELSE "new",
     v |-> x.v]

NewArray(v) == [kind |-> "array", obj |-> "new", v |-> v]

PyInt(n) == [kind |-> "int", obj |-> "new", v |-> <<n>>]

\* Two lengths broadcast together when they are equal or one of them is 1.
Broadcastable(a, b) == a = b \/ a = 1 \/ b = 1

BroadcastLen(a, b) == IF a = 1 THEN b ELSE a

\* Element i of a length-n array stretched to the broadcast length.
At(v, i) == IF Len(v) = 1 THEN v[1] ELSE v[i]

---------------------------------------------------------------------------
(* IEEE-754 binary64 values of planar_daylight.  A value is                *)
(* h/2 - (ghi * 2^26 + glo) * 2^-82: a multiple of half a degree less a    *)
(* gap held in two 26-bit limbs; sh is the binary exponent of the value's  *)
(* unit in the last place, counted in units of 2^-82.                      *)

Exact(h) == [h |-> h, ghi |-> 0, glo |-> 0, sh |-> 0]

Abs(n) == IF n < 0 THEN -n ELSE n

Log2Floor(n) == CHOOSE j \in 0..30 : 2^j <= n /\ n < 2^(j + 1)

\* Number of 2^sh units nearest to EpsHi * 2^26 + EpsLo, ties to even.
RoundEps(sh) ==
    LET d == sh - 26
        q == EpsHi \div 2^d
        r == EpsHi % 2^d
        half == 2^(d - 1)
        up == \/ r > half
              \/ r = half /\ EpsLo > 0
              \/ r = half /\ EpsLo = 0 /\ q % 2 = 1
    IN  IF up THEN q + 1 ELSE q

\* The double nearest to h/2 - 10**-9 (round to nearest, ties to even), for
\* a half-integer h/2 of magnitude at least 1/2, or 0.
SubEps(h) ==
    IF h = 0
    THEN [h |-> 0, ghi |-> EpsHi, glo |-> EpsLo, sh |-> 0]
    ELSE LET j == Log2Floor(Abs(h))
             \* below a power of two the result falls in the binade beneath
             sh == IF h > 0 /\ h = 2^j THEN 28 + j ELSE 29 + j
         IN  [h |-> h, ghi |-> RoundEps(sh) * 2^(sh - 26), glo |-> 0, sh |-> sh]

---------------------------------------------------------------------------
(* mplstereonet *)

\* st.pole2plunge_bearing: the pole of each plane, plunge = 90 - dip and
\* bearing = strike - 90 brought into [0, 360).  Each output is computed from
\* one input alone.
pole2plunge_bearing(strike, dip) ==
    <<NewArray([i \in 1..Len(dip.v) |-> 90 - dip.v[i]]),
      NewArray([i \in 1..Len(strike.v) |->
                   IF strike.v[i] - 90 < 0 THEN strike.v[i] - 90 + 360
                   ELSE strike.v[i] - 90])>>

---------------------------------------------------------------------------
(* The envelope calculators: what each computes and returns, before any   *)
(* drawing.  exc is the exception the computation raises ("none": none),  *)
(* vals the returned tuple, draw the axes method the result is drawn by.  *)

Computed(vals, draw) == [exc |-> "none", vals |-> vals, draw |-> draw]

Raised(exc, draw) == [exc |-> exc, vals |-> <<>>, draw |-> draw]

\* planar_daylight without the 10**-9 taken off the angle.
planar_daylight_without_epsilon(strike, dip) ==
    LET s == atleast_1d(strike, "strike")
        d == atleast_1d(dip, "dip")
        pole == pole2plunge_bearing(s, d)
        p_plunge == pole[1].v
        n == Len(p_plunge)
    IN  Computed(<<NewArray([i \in 1..n |-> Exact(90 + p_plunge[i])]),
                   pole[2],
                   NewArray([i \in 1..n |-> Exact(90 - p_plunge[i])])>>, "cone")

planar_daylight(strike, dip) ==
    LET s == atleast_1d(strike, "strike")
        d == atleast_1d(dip, "dip")
        pole == pole2plunge_bearing(s, d)
        p_plunge == pole[1].v
        p_bearing == pole[2]
        n == Len(p_plunge)
        \* 45 + p/2 and 45 - p/2 in half degrees: 90 + p and 90 - p
        pde_plunge == NewArray([i \in 1..n |-> Exact(90 + p_plunge[i])])
        pde_bearing == p_bearing
        pde_angle == NewArray([i \in 1..n |-> SubEps(90 - p_plunge[i])])
    IN  Computed(<<pde_plunge, pde_bearing, pde_angle>>, "cone")

planar_friction(friction) ==
    LET f == atleast_1d(friction, "friction")
        n == Len(f.v)
        pfe_plunge == NewArray([i \in 1..n |-> 90])
        pfe_bearing == NewArray([i \in 1..n |-> 0])
        pfe_angle == f
    IN  Computed(<<pfe_plunge, pfe_bearing, pfe_angle>>, "cone")

\* wedge_daylight bringing the strike into [0, 360).
wedge_daylight_normalised(strike, dip) ==
    LET s == atleast_1d(strike, "strike")
    IN  Computed(<<NewArray([i \in 1..Len(s.v) |-> s.v[i] % 360]),
                   atleast_1d(dip, "dip")>>, "plane")

wedge_daylight(strike, dip) ==
    LET wde_strike == atleast_1d(strike, "strike")
        wde_dip == atleast_1d(dip, "dip")
    IN  Computed(<<wde_strike, wde_dip>>, "plane")

\* wedge_friction keeping the angle from going negative.
wedge_friction_clamped(friction) ==
    LET f == atleast_1d(friction, "friction")
        n == Len(f.v)
    IN  Computed(<<NewArray([i \in 1..n |-> 90]),
                   NewArray([i \in 1..n |-> 0]),
                   NewArray([i \in 1..n |-> IF f.v[i] > 90 THEN 0 ELSE 90 - f.v[i]])>>,
                 "cone")

wedge_friction(friction) ==
    LET f == atleast_1d(friction, "friction")
        n == Len(f.v)
        wfe_plunge == NewArray([i \in 1..n |-> 90])
        wfe_bearing == NewArray([i \in 1..n |-> 0])
        wfe_angle == NewArray([i \in 1..n |-> 90 - f.v[i]])
    IN  Computed(<<wfe_plunge, wfe_bearing, wfe_angle>>, "cone")

\* toppling_slipLimits with the half span, 30, for the angle.
toppling_slipLimits_half_span(strike, dip) ==
    Computed(<<PyInt(0), atleast_1d(strike, "strike"), PyInt(30)>>, "cone")

toppling_slipLimits(strike, dip) ==
    LET s == atleast_1d(strike, "strike")
        d == atleast_1d(dip, "dip")
        tsl_plunge == PyInt(0)
        tsl_bearing == s
        tsl_angle == PyInt(60)
    IN  Computed(<<tsl_plunge, tsl_bearing, tsl_angle>>, "cone")

\* toppling_friction without the clamp at 0.
toppling_friction_unclamped(strike, dip, friction) ==
    LET f == atleast_1d(friction, "friction")
        tfe_strike == atleast_1d(strike, "strike")
        d == atleast_1d(dip, "dip")
        n == BroadcastLen(Len(d.v), Len(f.v))
        m == BroadcastLen(n, Len(tfe_strike.v))
    IN  IF ~Broadcastable(Len(d.v), Len(f.v)) THEN Raised("ValueError", "plane")
        ELSE IF ~Broadcastable(n, Len(tfe_strike.v))
        THEN Raised("ValueError", "plane")
        ELSE Computed(<<tfe_strike,
                        NewArray([i \in 1..m |-> At(d.v, i) - At(f.v, i)])>>, "plane")

\* toppling_friction with the zeros sized by the dip, not by the strike: the
\* strike's length is then never compared with the others.
toppling_friction_zeros_by_dip(strike, dip, friction) ==
    LET f == atleast_1d(friction, "friction")
        tfe_strike == atleast_1d(strike, "strike")
        d == atleast_1d(dip, "dip")
        n == BroadcastLen(Len(d.v), Len(f.v))
    IN  IF ~Broadcastable(Len(d.v), Len(f.v)) THEN Raised("ValueError", "plane")
        ELSE Computed(<<tfe_strike,
                        NewArray([i \in 1..n |->
                            IF At(d.v, i) - At(f.v, i) > 0
                            THEN At(d.v, i) - At(f.v, i) ELSE 0])>>, "plane")

toppling_friction(strike, dip, friction) ==
    LET f == atleast_1d(friction, "friction")
        tfe_strike == atleast_1d(strike, "strike")
        d == atleast_1d(dip, "dip")
        \* dip-friction
        n == BroadcastLen(Len(d.v), Len(f.v))
        diff == [i \in 1..n |-> At(d.v, i) - At(f.v, i)]
        \* np.where(dip-friction>0, dip-friction, np.zeros(len(tfe_strike)))
        m == BroadcastLen(n, Len(tfe_strike.v))
        tfe_dip == NewArray([i \in 1..m |->
                       IF At(diff, i) > 0 THEN At(diff, i) ELSE 0])
    IN  IF ~Broadcastable(Len(d.v), Len(f.v)) THEN Raised("ValueError", "plane")
        ELSE IF ~Broadcastable(n, Len(tfe_strike.v))
        THEN Raised("ValueError", "plane")
        ELSE Computed(<<tfe_strike, tfe_dip>>, "plane")

Calculators ==
    {"planar_daylight", "planar_friction", "wedge_daylight", "wedge_friction",
     "toppling_slipLimits", "toppling_friction"}

Calc(fn, strike, dip, friction) ==
    CASE fn = "planar_daylight" -> planar_daylight(strike, dip)
      [] fn = "planar_friction" -> planar_friction(friction)
      [] fn = "wedge_daylight" -> wedge_daylight(strike, dip)
      [] fn = "wedge_friction" -> wedge_friction(friction)
      [] fn = "toppling_slipLimits" -> toppling_slipLimits(strike, dip)
      [] fn = "toppling_friction" -> toppling_friction(strike, dip, friction)

---------------------------------------------------------------------------
(* The plotting context (matplotlib.pyplot and mplstereonet).  A context   *)
(* cv is [axes, cur, log, exc, out]: every axes created so far, the index  *)
(* of the current axes (0: none), the calculators invoked so far, the      *)
(* exception that ended the call ("none": none; the statements after a     *)
(* raise are not run), and the tuple the last calculator returned.         *)

NewAxes(fig, proj) ==
    [fig |-> fig, proj |-> proj, title |-> "", grid |-> FALSE,
     tight |-> FALSE, artists |-> <<>>]

\* The figures are numbered from 1 as they are created.
NumFigs(ax) == IF ax = <<>> THEN 0 ELSE ax[Len(ax)].fig

\* plt.gca(): the current axes; without one, a new figure with plain
\* (rectilinear) axes is created and made current.
Gca(cv) ==
    IF cv.cur # 0 THEN cv
    ELSE [cv EXCEPT !.axes = Append(@, NewAxes(NumFigs(@) + 1, "rectilinear")),
                    !.cur = Len(cv.axes) + 1]

\* ax=plt.gca(); ax.cone(...) or ax.plane(...): only stereonet axes have
\* these methods.
DrawOnCurrent(cv, shape, by) ==
    LET c == Gca(cv)
    IN  IF c.axes[c.cur].proj # "stereonet"
        THEN [c EXCEPT !.exc = "AttributeError"]
        ELSE [c EXCEPT !.axes[c.cur].artists =
                           Append(@, [shape |-> shape, by |-> by])]

\* One calculator call: compute, then draw if to_plot, then return.
Invoke(cv, fn, strike, dip, friction, to_plot) ==
    IF cv.exc # "none" THEN cv
    ELSE LET r == Calc(fn, strike, dip, friction)
             c == IF r.exc # "none" THEN [cv EXCEPT !.exc = r.exc]
                  ELSE IF to_plot THEN DrawOnCurrent(cv, r.draw, fn)
                  ELSE cv
             drawn == r.exc = "none" /\ to_plot /\ c.exc = "none"
         IN  [c EXCEPT !.log = Append(@, [fn |-> fn, to_plot |-> to_plot,
                                          ax |-> IF drawn THEN c.cur ELSE 0]),
                       !.out = IF c.exc = "none" THEN r.vals ELSE <<>>]

Canvas == [axes |-> axes, cur |-> cur, log |-> log, exc |-> "none", out |-> <<>>]

---------------------------------------------------------------------------
(* setup_axes *)

\* The statements setup_axes runs for one failure selector, in order; b is
\* the number of axes that exist before the call, so that the new axes are
\* b+1 (ax, or ax[0]), b+2 and b+3.
\* The block of one mode with its two calculators in the other order.
ModeBlock_daylight_first(a, mode, friction_fn, daylight_fn) ==
    <<[op |-> "set_title", ax |-> a, arg |-> mode],
      [op |-> "grid", ax |-> a, arg |-> ""],
      [op |-> "call", ax |-> a, arg |-> daylight_fn],
      [op |-> "call", ax |-> a, arg |-> friction_fn]>>

ModeBlock(a, mode, friction_fn, daylight_fn) ==
    <<[op |-> "set_title", ax |-> a, arg |-> mode],
      [op |-> "grid", ax |-> a, arg |-> ""],
      [op |-> "call", ax |-> a, arg |-> friction_fn],
      [op |-> "call", ax |-> a, arg |-> daylight_fn]>>

Statements(failure, b) ==
    IF failure = "all"
    THEN <<[op |-> "subplots", ax |-> 3, arg |-> ""],
           [op |-> "plane", ax |-> b + 1, arg |-> ""],
           [op |-> "plane", ax |-> b + 2, arg |-> ""],
           [op |-> "plane", ax |-> b + 3, arg |-> ""],
           [op |-> "sca", ax |-> b + 1, arg |-> ""]>>
         \o ModeBlock(b + 1, "planar", "planar_friction", "planar_daylight")
         \o <<[op |-> "sca", ax |-> b + 2, arg |-> ""]>>
         \o ModeBlock(b + 2, "wedge", "wedge_friction", "wedge_daylight")
         \o <<[op |-> "sca", ax |-> b + 3, arg |-> ""]>>
         \o ModeBlock(b + 3, "toppling", "toppling_friction", "toppling_slipLimits")
    ELSE <<[op |-> "subplots", ax |-> 1, arg |-> ""],
           [op |-> "plane", ax |-> b + 1, arg |-> ""]>>
         \o (CASE failure = "planar" ->
                    ModeBlock(b + 1, "planar", "planar_friction", "planar_daylight")
               [] failure = "wedge" ->
                    ModeBlock(b + 1, "wedge", "wedge_friction", "wedge_daylight")
               [] failure = "toppling" ->
                    ModeBlock(b + 1, "toppling", "toppling_friction",
                              "toppling_slipLimits")
               [] OTHER -> <<[op |-> "grid", ax |-> b + 1, arg |-> ""]>>)
         \o <<[op |-> "tight_layout", ax |-> b + 1, arg |-> ""]>>

\* The statements of setup_axes with plt.sca left without effect.
Execute_without_sca(cv, st, strike, dip, friction, to_plot) ==
    CASE st.op = "subplots" ->
            [cv EXCEPT !.axes = @ \o [i \in 1..st.ax |->
                                         NewAxes(NumFigs(cv.axes) + 1, "stereonet")],
                       !.cur = Len(cv.axes) + st.ax]
      [] st.op = "plane" ->
            [cv EXCEPT !.axes[st.ax].artists =
                           Append(@, [shape |-> "plane", by |-> "setup_axes"])]
      [] st.op = "sca" -> cv
      [] st.op = "set_title" -> [cv EXCEPT !.axes[st.ax].title = st.arg]
      [] st.op = "grid" -> [cv EXCEPT !.axes[st.ax].grid = TRUE]
      [] st.op = "tight_layout" -> [cv EXCEPT !.axes[st.ax].tight = TRUE]
      [] st.op = "call" -> Invoke(cv, st.arg, strike, dip, friction, to_plot)

\* One statement of setup_axes.
\*   subplots: st.subplots(ncols=3,projection='equal_angle_stereonet'), or
\*     plt.figure() and fig.add_subplot(111,...): a new figure with st.ax
\*     stereonet axes, the last one created being current;
\*   plane: ax.plane(strike,dip,'k--',alpha=0.5,lw=5), the slope face;
\*   call: a calculator, given setup_axes's own to_plot.
Execute(cv, st, strike, dip, friction, to_plot) ==
    CASE st.op = "subplots" ->
            [cv EXCEPT !.axes = @ \o [i \in 1..st.ax |->
                                         NewAxes(NumFigs(cv.axes) + 1, "stereonet")],
                       !.cur = Len(cv.axes) + st.ax]
      [] st.op = "plane" ->
            [cv EXCEPT !.axes[st.ax].artists =
                           Append(@, [shape |-> "plane", by |-> "setup_axes"])]
      [] st.op = "sca" -> [cv EXCEPT !.cur = st.ax]
      [] st.op = "set_title" -> [cv EXCEPT !.axes[st.ax].title = st.arg]
      [] st.op = "grid" -> [cv EXCEPT !.axes[st.ax].grid = TRUE]
      [] st.op = "tight_layout" -> [cv EXCEPT !.axes[st.ax].tight = TRUE]
      [] st.op = "call" -> Invoke(cv, st.arg, strike, dip, friction, to_plot)

\* The statements in order, up to the first that raises.
RECURSIVE Run(_, _, _, _, _, _)
Run(cv, sts, strike, dip, friction, to_plot) ==
    IF sts = <<>> \/ cv.exc # "none" THEN cv
    ELSE Run(Execute(cv, Head(sts), strike, dip, friction, to_plot),
             Tail(sts), strike, dip, friction, to_plot)

setup_axes(cv, strike, dip, friction, failure, to_plot) ==
    Run(cv, Statements(failure, Len(cv.axes)), strike, dip, friction, to_plot)

---------------------------------------------------------------------------
(* The client's calls *)

NoCall ==
    [fn |-> "none", strike |-> NoArg, dip |-> NoArg, friction |-> NoArg,
     failure |-> "", to_plot |-> FALSE]

NoRet == [status |-> "none", exc |-> "none", vals |-> <<>>, fig |-> 0, ax |-> <<>>]

\* The state a calculator call leaves: the returned tuple, or the exception.
Finish(c, fn, strike, dip, friction, to_plot) ==
    /\ pc' = "done"
    /\ call' = [fn |-> fn, strike |-> strike, dip |-> dip, friction |-> friction,
                failure |-> "", to_plot |-> to_plot]
    /\ ret' = [status |-> IF c.exc = "none" THEN "returned" ELSE "raised",
               exc |-> c.exc, vals |-> c.out, fig |-> 0, ax |-> <<>>]
    /\ axes' = c.axes
    /\ cur' = c.cur
    /\ log' = c.log

Call_planar_daylight ==
    /\ pc = "idle"
    /\ \E strike \in Inputs(StrikeVals), dip \in Inputs(DipVals), to_plot \in BOOLEAN :
          Finish(Invoke(Canvas, "planar_daylight", strike, dip, NoArg, to_plot),
                 "planar_daylight", strike, dip, NoArg, to_plot)

Call_planar_friction ==
    /\ pc = "idle"
    /\ \E friction \in Inputs(FrictionVals), to_plot \in BOOLEAN :
          Finish(Invoke(Canvas, "planar_friction", NoArg, NoArg, friction, to_plot),
                 "planar_friction", NoArg, NoArg, friction, to_plot)

Call_wedge_daylight ==
    /\ pc = "idle"
    /\ \E strike \in Inputs(StrikeVals), dip \in Inputs(DipVals), to_plot \in BOOLEAN :
          Finish(Invoke(Canvas, "wedge_daylight", strike, dip, NoArg, to_plot),
                 "wedge_daylight", strike, dip, NoArg, to_plot)

Call_wedge_friction ==
    /\ pc = "idle"
    /\ \E friction \in Inputs(FrictionVals), to_plot \in BOOLEAN :
          Finish(Invoke(Canvas, "wedge_friction", NoArg, NoArg, friction, to_plot),
                 "wedge_friction", NoArg, NoArg, friction, to_plot)

Call_toppling_slipLimits ==
    /\ pc = "idle"
    /\ \E strike \in Inputs(StrikeVals), dip \in Inputs(DipVals), to_plot \in BOOLEAN :
          Finish(Invoke(Canvas, "toppling_slipLimits", strike, dip, NoArg, to_plot),
                 "toppling_slipLimits", strike, dip, NoArg, to_plot)

Call_toppling_friction ==
    /\ pc = "idle"
    /\ \E strike \in Inputs(StrikeVals), dip \in Inputs(DipVals),
          friction \in Inputs(FrictionVals), to_plot \in BOOLEAN :
          Finish(Invoke(Canvas, "toppling_friction", strike, dip, friction, to_plot),
                 "toppling_friction", strike, dip, friction, to_plot)

Call_setup_axes ==
    /\ pc = "idle"
    /\ \E strike \in SlopeInputs(StrikeVals), dip \in SlopeInputs(DipVals),
          friction \in SlopeInputs(FrictionVals), failure \in Failures,
          to_plot \in BOOLEAN :
          LET c == setup_axes(Canvas, strike, dip, friction, failure, to_plot)
              b == Len(axes)
          IN  /\ pc' = "done"
              /\ call' = [fn |-> "setup_axes", strike |-> strike, dip |-> dip,
                          friction |-> friction, failure |-> failure,
                          to_plot |-> to_plot]
              /\ ret' = IF c.exc # "none"
                        THEN [status |-> "raised", exc |-> c.exc, vals |-> <<>>,
                              fig |-> 0, ax |-> <<>>]
                        ELSE [status |-> "returned", exc |-> "none", vals |-> <<>>,
                              fig |-> NumFigs(c.axes),
                              ax |-> IF failure = "all"
                                     THEN <<b + 1, b + 2, b + 3>>
                                     ELSE <<b + 1>>]
              /\ axes' = c.axes
              /\ cur' = c.cur
              /\ log' = c.log

\* Before the call: nothing plotted yet, or the one stereonet axes of a
\* figure the client has opened (st.subplots()), which is then current.
Init ==
    /\ pc = "idle"
    /\ call = NoCall
    /\ ret = NoRet
    /\ log = <<>>
    /\ \/ axes = <<>> /\ cur = 0
       \/ axes = <<NewAxes(1, "stereonet")>> /\ cur = 1

Next ==
    \/ Call_toppling_slipLimits
    \/ Call_wedge_daylight
    \/ Call_planar_friction
    \/ Call_wedge_friction
    \/ Call_toppling_friction
    \/ Call_planar_daylight
    \/ Call_setup_axes

Spec == Init /\ [][Next]_vars

\* planar_daylight over every whole-degree dip of the sweep.
Sweep_planar_daylight ==
    /\ pc = "idle"
    /\ \E strike \in {x \in Inputs(StrikeVals) : x.kind = "scalar"},
          dip \in DipSweep, to_plot \in BOOLEAN :
          Finish(Invoke(Canvas, "planar_daylight", strike, dip, NoArg, to_plot),
                 "planar_daylight", strike, dip, NoArg, to_plot)

NextSweep == Sweep_planar_daylight

SpecSweep == Init /\ [][NextSweep]_vars

---------------------------------------------------------------------------
(* Properties *)

\* The call of calculator fn has returned its tuple.
Returned(fn) == pc = "done" /\ call.fn = fn /\ ret.status = "returned"

Max(a, b) == IF a > b THEN a ELSE b

Range(v) == {v[i] : i \in 1..Len(v)}

\* The arguments a calculator takes, as the arrays np.atleast_1d makes of them.
ArgsOf(c) ==
    CASE c.fn \in {"planar_friction", "wedge_friction"} -> <<c.friction>>
      [] c.fn = "toppling_friction" -> <<c.strike, c.dip, c.friction>>
      [] OTHER -> <<c.strike, c.dip>>

ArgLens(c) == {Len(ArgsOf(c)[k].v) : k \in 1..Len(ArgsOf(c))}

\* The lengths of the arguments given as sequences (lists or ndarrays).
SeqArgLens(c) ==
    {Len(ArgsOf(c)[k].v) : k \in {j \in 1..Len(ArgsOf(c)) : ArgsOf(c)[j].kind # "scalar"}}

\* C1: toppling_friction on a batch of equal lengths returns, at every
\* position, the dip max(dip - friction, 0), never negative, and the strike
\* it was given.
C1_TopplingFrictionClamp ==
    (/\ Returned("toppling_friction")
     /\ Len(call.strike.v) = Len(call.dip.v)
     /\ Len(call.dip.v) = Len(call.friction.v))
    => LET n == Len(call.dip.v)
           tfe_strike == ret.vals[1].v
           tfe_dip == ret.vals[2].v
       IN  /\ Len(tfe_strike) = n
           /\ Len(tfe_dip) = n
           /\ \A i \in 1..n :
                 /\ tfe_dip[i] = Max(call.dip.v[i] - call.friction.v[i], 0)
                 /\ tfe_dip[i] >= 0
                 /\ tfe_strike[i] = call.strike.v[i]

\* A batch of two in which one difference is clamped and one is not.
C1_Witness ==
    /\ Returned("toppling_friction")
    /\ Len(call.strike.v) = 2 /\ Len(call.dip.v) = 2 /\ Len(call.friction.v) = 2
    /\ call.dip.v[1] - call.friction.v[1] < 0
    /\ call.dip.v[2] - call.friction.v[2] > 0
    /\ ret.vals[2].v = <<0, call.dip.v[2] - call.friction.v[2]>>

\* The length a set of lengths that broadcast together broadcasts to.
BroadcastLenOf(S) == IF S \ {1} = {} THEN 1 ELSE CHOOSE n \in S \ {1} : TRUE

\* C2: every component of the tuple a calculator returns is an array whose
\* length is the broadcast length of the inputs.
C2_ComponentsAreArraysOfBroadcastLength ==
    (/\ pc = "done"
     /\ call.fn \in Calculators
     /\ ret.status = "returned"
     /\ \A a, b \in ArgLens(call) : Broadcastable(a, b))
    => \A k \in 1..Len(ret.vals) :
          /\ ret.vals[k].kind = "array"
          /\ Len(ret.vals[k].v) = BroadcastLenOf(ArgLens(call))

PoleOfCall ==
    pole2plunge_bearing(atleast_1d(call.strike, "strike"), atleast_1d(call.dip, "dip"))

\* The gap of a binary64 value below its half-degree part is exactly the
\* double 1e-9.
GapIsEps(x) == x.ghi = EpsHi /\ x.glo = EpsLo

\* The gap is a whole number of units in the last place and differs from
\* the double 1e-9 by at most half such a unit.
GapIsEpsRounded(x) ==
    IF x.sh = 0 THEN GapIsEps(x)
    ELSE LET d == x.sh - 26
         IN  /\ x.glo = 0
             /\ x.ghi % 2^d = 0
             /\ EpsHi - x.ghi <= 2^(d - 1) - 1
             /\ x.ghi - EpsHi <= 2^(d - 1)

\* C4, as stated: at every position the plunge is 45 + pole_plunge/2, the
\* bearing the pole's bearing, and the angle lies below 45 - pole_plunge/2
\* by exactly 1e-9.
C4_AngleBelowByExactlyEps ==
    Returned("planar_daylight")
    => LET p == PoleOfCall[1].v
       IN  /\ ret.vals[2].v = PoleOfCall[2].v
           /\ \A i \in 1..Len(p) :
                 /\ ret.vals[1].v[i] = Exact(90 + p[i])
                 /\ ret.vals[3].v[i].h = 90 - p[i]
                 /\ GapIsEps(ret.vals[3].v[i])

\* C4, amended: the plunge is 45 + pole_plunge/2, the bearing the pole's
\* bearing, and the angle is the double nearest to 45 - pole_plunge/2 - 1e-9:
\* strictly below 45 - pole_plunge/2, by 1e-9 to within half a unit in the
\* last place of the angle, and by exactly 1e-9 only where
\* 45 - pole_plunge/2 is 0; plunge + angle is 90 less that gap.
C4_AngleBelowByRoundedEps ==
    Returned("planar_daylight")
    => LET p == PoleOfCall[1].v
       IN  /\ ret.vals[2].v = PoleOfCall[2].v
           /\ Len(ret.vals[1].v) = Len(p)
           /\ Len(ret.vals[3].v) = Len(p)
           /\ \A i \in 1..Len(p) :
                 LET angle == ret.vals[3].v[i]
                     plunge == ret.vals[1].v[i]
                 IN  /\ plunge = Exact(90 + p[i])
                     /\ angle.h = 90 - p[i]
                     /\ angle.ghi > 0 \/ angle.glo > 0
                     /\ GapIsEpsRounded(angle)
                     /\ GapIsEps(angle) <=> p[i] = 90
                     /\ plunge.h + angle.h = 180

\* A batch holding a dip whose angle is rounded and a dip whose angle is not.
C4_Witness ==
    /\ Returned("planar_daylight")
    /\ Len(call.dip.v) = 2
    /\ ~GapIsEps(ret.vals[3].v[1])
    /\ GapIsEps(ret.vals[3].v[2])

\* C5: wedge_daylight returns the strike and the dip it was given, the same
\* values in the same order, whatever they are (negative and out-of-range
\* values included), raising nothing of its own; the pole of the returned
\* pair is the pole of the given pair.
C5_WedgeDaylightIdentity ==
    (pc = "done" /\ call.fn = "wedge_daylight")
    => /\ ~call.to_plot => ret.status = "returned"
       /\ ret.status = "returned" =>
             /\ Len(ret.vals) = 2
             /\ ret.vals[1].kind = "array" /\ ret.vals[2].kind = "array"
             /\ ret.vals[1].v = call.strike.v
             /\ ret.vals[2].v = call.dip.v
             /\ pole2plunge_bearing(ret.vals[1], ret.vals[2]) = PoleOfCall

\* A scalar negative strike, returned as an array holding it.
C5_Witness ==
    /\ Returned("wedge_daylight")
    /\ call.strike.kind = "scalar"
    /\ call.strike.v[1] < 0
    /\ Len(call.dip.v) = 1
    /\ ret.vals[1].v = call.strike.v
    /\ pole2plunge_bearing(ret.vals[1], ret.vals[2])[2].v = <<call.strike.v[1] + 270>>

\* C6: wedge_friction returns, at every position, plunge 90, bearing 0 and
\* angle 90 - friction, friction above 90 included, raising nothing of its
\* own; the angle is the complement of the angle planar_friction returns for
\* the same input, which is the friction itself, on the same axis.
C6_WedgeFrictionComplement ==
    (pc = "done" /\ call.fn = "wedge_friction")
    => /\ ~call.to_plot => ret.status = "returned"
       /\ ret.status = "returned" =>
             LET f == call.friction.v
                 pfe == planar_friction(call.friction).vals
             IN  /\ Len(ret.vals) = 3
                 /\ \A k \in 1..3 : Len(ret.vals[k].v) = Len(f)
                 /\ \A i \in 1..Len(f) :
                       /\ ret.vals[1].v[i] = 90
                       /\ ret.vals[2].v[i] = 0
                       /\ ret.vals[3].v[i] = 90 - f[i]
                       /\ pfe[3].v[i] = f[i]
                       /\ ret.vals[3].v[i] + pfe[3].v[i] = 90
                 /\ pfe[1].v = ret.vals[1].v
                 /\ pfe[2].v = ret.vals[2].v

\* A batch with a friction above 90, whose angle is negative.
C6_Witness ==
    /\ Returned("wedge_friction")
    /\ Len(call.friction.v) = 2
    /\ call.friction.v[1] > 90
    /\ ret.vals[3].v[1] < 0
    /\ ret.vals[3].v[2] > 0

\* Two of the arguments given as sequences have different lengths.
MismatchedLengths(c) == Cardinality(SeqArgLens(c)) > 1

\* C7, as stated: every calculator call whose sequence inputs have different
\* lengths ends in a shape error and returns nothing.
C7_MismatchedLengthsRaise ==
    (pc = "done" /\ call.fn \in Calculators /\ MismatchedLengths(call))
    => ret.status = "raised" /\ ret.exc = "ValueError"

\* The lengths toppling_friction combines element by element fit: dip with
\* friction, and their common length with the strike's.
TopplingLengthsFit(c) ==
    LET ls == Len(c.strike.v)
        ld == Len(c.dip.v)
        lf == Len(c.friction.v)
        n == IF ld = 1 THEN lf ELSE ld
    IN  /\ ld = lf \/ ld = 1 \/ lf = 1
        /\ n = ls \/ n = 1 \/ ls = 1

\* C7, amended: with plotting off, a calculator call raises only in
\* toppling_friction, a ValueError, and exactly when the lengths it combines
\* element by element do not fit (dip with friction, then their common
\* length with the strike's, a length of 1 fitting any length); every other
\* call returns a value, mismatched lengths or not.
C7_OnlyUnfitTopplingFrictionRaises ==
    (pc = "done" /\ call.fn \in Calculators /\ ~call.to_plot)
    => /\ ret.status = "raised" <=>
             (call.fn = "toppling_friction" /\ ~TopplingLengthsFit(call))
       /\ ret.status = "raised" => ret.exc = "ValueError"
       /\ ret.status \in {"raised", "returned"}

\* toppling_friction given a strike of length 1 and a dip and a friction of
\* length 2 returns a strike of length 1 and a dip of length 2.
C7_Witness ==
    /\ Returned("toppling_friction")
    /\ ~call.to_plot
    /\ call.strike.kind # "scalar" /\ Len(call.strike.v) = 1
    /\ call.dip.kind # "scalar" /\ Len(call.dip.v) = 2
    /\ call.friction.kind # "scalar" /\ Len(call.friction.v) = 2
    /\ Len(ret.vals[1].v) = 1
    /\ Len(ret.vals[2].v) = 2

\* The number of axes that existed before setup_axes was called.
AxesBefore == Len(axes) - (IF call.failure = "all" THEN 3 ELSE 1)

\* The axes setup_axes created.
NewAxesOfCall == (AxesBefore + 1)..Len(axes)

SlopeFaceArtist == [shape |-> "plane", by |-> "setup_axes"]

FrictionFns == {"planar_friction", "wedge_friction", "toppling_friction"}

DaylightFns == {"planar_daylight", "wedge_daylight", "toppling_slipLimits"}

\* The calculators a failure selector calls for, in order.
ExpectedCalls(failure) ==
    CASE failure = "planar" -> <<"planar_friction", "planar_daylight">>
      [] failure = "wedge" -> <<"wedge_friction", "wedge_daylight">>
      [] failure = "toppling" -> <<"toppling_friction", "toppling_slipLimits">>
      [] failure = "all" -> <<"planar_friction", "planar_daylight",
                              "wedge_friction", "wedge_daylight",
                              "toppling_friction", "toppling_slipLimits">>
      [] OTHER -> <<>>

\* C8: the calculators setup_axes invokes, and their order, are fixed by the
\* failure selector: the friction and then the daylight (or slip-limit)
\* calculator of the mode, the three pairs in the order planar, wedge,
\* toppling for 'all', none for any other value, which does not raise and
\* returns axes holding only the slope face and a grid.  A call that a
\* calculator ends by raising has invoked the first calculators of that
\* order.  On every new subplot the slope face is drawn first, and no
\* friction envelope is drawn after a daylight envelope.
C8_CallsFollowFailureSelector ==
    (pc = "done" /\ call.fn = "setup_axes")
    => LET expected == ExpectedCalls(call.failure)
       IN  /\ Len(log) <= Len(expected)
           /\ \A i \in 1..Len(log) : log[i].fn = expected[i]
           /\ ret.status = "returned" =>
                 /\ Len(log) = Len(expected)
                 /\ ret.ax = [i \in 1..Len(ret.ax) |-> AxesBefore + i]
                 /\ Range(ret.ax) = NewAxesOfCall
                 /\ \A a \in NewAxesOfCall : axes[a].fig = ret.fig
           /\ call.failure \notin {"planar", "wedge", "toppling", "all"} =>
                 /\ ret.status = "returned"
                 /\ log = <<>>
                 /\ axes[ret.ax[1]].artists = <<SlopeFaceArtist>>
                 /\ axes[ret.ax[1]].grid
           /\ \A a \in NewAxesOfCall :
                 /\ axes[a].proj = "stereonet"
                 /\ Len(axes[a].artists) >= 1
                 /\ axes[a].artists[1] = SlopeFaceArtist
                 /\ \A j, k \in 1..Len(axes[a].artists) :
                       (j < k) => ~(/\ axes[a].artists[j].by \in DaylightFns
                                    /\ axes[a].artists[k].by \in FrictionFns)

\* A call with 'all' that returned with every envelope drawn.
C8_Witness ==
    /\ pc = "done" /\ call.fn = "setup_axes" /\ ret.status = "returned"
    /\ call.failure = "all"
    /\ call.to_plot
    /\ Len(log) = 6
    /\ \A a \in NewAxesOfCall : Len(axes[a].artists) = 3

\* The failure mode a calculator belongs to.
ModeOfFn(fn) ==
    CASE fn \in {"planar_friction", "planar_daylight"} -> 1
      [] fn \in {"wedge_friction", "wedge_daylight"} -> 2
      [] fn \in {"toppling_friction", "toppling_slipLimits"} -> 3

\* The subplot of the mode of calculator fn in the figure of this call.
OwnAxes(fn) ==
    IF call.failure = "all" THEN AxesBefore + ModeOfFn(fn) ELSE AxesBefore + 1

SetupReturned(failures) ==
    /\ pc = "done"
    /\ call.fn = "setup_axes"
    /\ call.failure \in failures
    /\ ret.status = "returned"

\* Both envelopes of calculator pair i (log[2i-1], log[2i]) are on the
\* subplot of their mode, after the slope face, and were drawn while that
\* subplot was the current axes.
PairDrawnOnOwnAxes(i) ==
    LET fr == log[2 * i - 1]
        dl == log[2 * i]
        a == OwnAxes(fr.fn)
    IN  /\ fr.ax = a
        /\ dl.ax = a
        /\ Len(axes[a].artists) = 3
        /\ axes[a].artists[1] = SlopeFaceArtist
        /\ axes[a].artists[2].by = fr.fn
        /\ axes[a].artists[3].by = dl.fn

\* C9, as stated: whatever its plot-enable flag, setup_axes invokes the two
\* calculators of each selected mode with plotting enabled, and on return
\* both envelopes of each selected mode are on the subplot of their mode.
C9_EnvelopesAlwaysDrawn ==
    SetupReturned({"planar", "wedge", "toppling", "all"})
    => /\ \A i \in 1..Len(log) : log[i].to_plot
       /\ \A i \in 1..(Len(log) \div 2) : PairDrawnOnOwnAxes(i)

\* C9, amended: setup_axes hands its own plot-enable flag to the two
\* calculators of each selected mode.  With the flag true (the default),
\* on return both envelopes of each selected mode are drawn, each on the
\* subplot of its own mode, which was the current axes at the draw, and on
\* no other.  With the flag false no envelope is drawn: every new subplot
\* holds the slope face alone.
C9_EnvelopesDrawnWhenToPlot ==
    SetupReturned({"planar", "wedge", "toppling", "all"})
    => /\ Len(log) = Len(ExpectedCalls(call.failure))
       /\ \A i \in 1..Len(log) : log[i].to_plot = call.to_plot
       /\ call.to_plot => \A i \in 1..(Len(log) \div 2) : PairDrawnOnOwnAxes(i)
       /\ ~call.to_plot =>
             /\ \A i \in 1..Len(log) : log[i].ax = 0
             /\ \A a \in NewAxesOfCall : axes[a].artists = <<SlopeFaceArtist>>
       /\ \A a \in 1..AxesBefore : axes[a].artists = <<>>

\* A call with 'all' and plotting on, made while another axes existed, that
\* returned with the three pairs drawn on the three new subplots.
C9_Witness ==
    /\ SetupReturned({"all"})
    /\ call.to_plot
    /\ AxesBefore = 1
    /\ \A i \in 1..3 : PairDrawnOnOwnAxes(i)
    /\ log[1].ax # log[3].ax /\ log[3].ax # log[5].ax

\* C10: no array in the tuple a calculator returns is an array the caller
\* passed in.
C10_ReturnedArraysAreFresh ==
    (pc = "done" /\ call.fn \in Calculators /\ ret.status = "returned")
    => \A k \in 1..Len(ret.vals) :
          ret.vals[k].kind = "array" => ret.vals[k].obj = "new"

====
